---- MODULE Spec2Model ----
(***************************************************************************)
(* A model of sumo_dndc/parser.py: the parser factory `Parser`, the parser *)
(* classes it dispatches to, and the life of one parser instance (the      *)
(* factory call that makes it, then parse calls and reads of data_nounits).*)
(*                                                                         *)
(* Python values are modelled as follows.                                  *)
(*   None / ""     : the string "None" (names), the empty sequence (paths, *)
(*                   vars), the empty set (ids), "" (site id); all of them *)
(*                   are falsy in the code's `if x:` tests.                *)
(*   Path          : the sequence of its components; Path.name is the last *)
(*                   component.                                            *)
(*   text file     : the sequence of its lines, a line being the sequence  *)
(*                   of its tab-separated fields (a blank line is <<>>).   *)
(*   DataFrame     : a record of its column names, its rows (sequences of  *)
(*                   cells), its index labels and the index name.          *)
(*   XML document  : the sequence of the root's `site` children.           *)
(*   exception     : the name of its class, as the outcome of the call.    *)
(* Cells are opaque tokens (strings); pandas' dtype inference is not       *)
(* modelled.  The text sources enumerated are those whose table region is  *)
(* rectangular with distinct, non-empty header names, so that read_csv     *)
(* neither mangles names nor pads or rejects rows.                         *)
(* Series.str.replace is modelled with the regex default of the pandas     *)
(* releases the module was written for (pattern taken as a regular         *)
(* expression).                                                            *)
(***************************************************************************)
EXTENDS Integers, Sequences, FiniteSets, TLC

VARIABLES
    parsers,    \* the class attribute Parser.parsers (the registry list)
    inst,       \* the parser instance the caller holds (NoInstance before)
    last        \* the most recent call: its arguments and its outcome

vars == <<parsers, inst, last>>

(***************************************************************************)
(* Bounds of the model.                                                    *)
(***************************************************************************)
MaxVars == 2        \* longest `vars` list a caller passes
MaxIds == 2         \* largest `ids` list a caller passes

(***************************************************************************)
(* File kinds and parser classes.                                          *)
(***************************************************************************)
InFile == {"AIRCHEM", "CLIMATE", "EVENTS", "SITE", "SETUP"}

OutFile == {"DAILY", "YEARLY"}

FileKinds == InFile \cup OutFile

ParserClasses == {"AirchemParser", "ClimateParser", "SiteParser", "DailyResultsParser"}

TxtParsers == {"AirchemParser", "ClimateParser", "DailyResultsParser"}

\* a slip in the _fileType attributes: ClimateParser declared as AIRCHEM
FileTypeOfMutant(cls) ==
    CASE cls = "AirchemParser" -> "AIRCHEM"
      [] cls = "ClimateParser" -> "AIRCHEM"
      [] cls = "SiteParser" -> "SITE"
      [] cls = "DailyResultsParser" -> "DAILY"

\* the class attribute _fileType of each concrete parser
FileTypeOf(cls) ==
    CASE cls = "AirchemParser" -> "AIRCHEM"
      [] cls = "ClimateParser" -> "CLIMATE"
      [] cls = "SiteParser" -> "SITE"
      [] cls = "DailyResultsParser" -> "DAILY"

is_parser_for(cls, fileType) == fileType = FileTypeOf(cls)

\* Parser.parsers as the module defines it
DefaultParsers == <<"AirchemParser", "ClimateParser", "SiteParser", "DailyResultsParser">>

\* registry contents a caller may have left in Parser.parsers
Registries ==
    { DefaultParsers,
      <<"ClimateParser", "SiteParser">>,
      <<"AirchemParser", "ClimateParser", "SiteParser", "DailyResultsParser", "AirchemParser">> }

matched_parsers(reg, fileType) == SelectSeq(reg, LAMBDA r : is_parser_for(r, fileType))

(***************************************************************************)
(* Python values.                                                          *)
(***************************************************************************)
NoneStr == "None"

NonePath == <<>>

PathName(path) == path[Len(path)]

NoFrame == [kind |-> "None", columns |-> <<>>, rows |-> <<>>, index |-> <<>>,
            indexName |-> NoneStr, soil |-> NoneStr]

Frame(columns, rows, index, indexName) ==
    [kind |-> "DataFrame", columns |-> columns, rows |-> rows, index |-> index,
     indexName |-> indexName, soil |-> NoneStr]

Element(soil) ==
    [kind |-> "Element", columns |-> <<>>, rows |-> <<>>, index |-> <<>>,
     indexName |-> NoneStr, soil |-> soil]

NoInstance == [cls |-> NoneStr, type |-> NoneStr, data |-> NoFrame,
               path |-> NonePath, name |-> NoneStr]

\* BaseParser.__init__: the fields of a fresh instance of class cls
BaseInit(cls, fileType) ==
    [cls |-> cls,
     type |-> IF fileType \in FileKinds THEN fileType ELSE NoneStr,
     data |-> NoFrame, path |-> NonePath, name |-> NoneStr]

(***************************************************************************)
(* The file system the calls read.                                         *)
(***************************************************************************)
AirchemTxt == <<"in", "airchem.txt">>
ClimateTxt == <<"in", "climate.txt">>
BothTxt == <<"in", "both.txt">>
DailyTxt == <<"out", "daily.txt">>
AltDailyTxt == <<"alt", "daily.txt">>
MissingTxt == <<"in", "missing.txt">>
SiteXml == <<"in", "site.xml">>
EmptyXml == <<"in", "empty.xml">>
MissingXml == <<"in", "missing.xml">>

TxtPaths == {AirchemTxt, ClimateTxt, BothTxt, DailyTxt, AltDailyTxt}

XmlPaths == {SiteXml, EmptyXml}

TxtLines(path) ==
    CASE path = AirchemTxt ->
            << <<"%global">>, <<"time = 2000-01-01/1">>, <<"%data">>,
               <<"*", "id", "prec">>,
               <<"2000-01-01", "1", "a1">>,
               <<"2000-01-02", "1", "a2">> >>
      [] path = ClimateTxt ->
            << <<"%climate">>, <<"%data">>, <<>>,
               <<"datetime", "temp[C]", "prec">>,
               <<"2000-01-01 06:00", "c1", "c2">>,
               <<"2000-01-01 18:00", "c3", "c4">>,
               <<"2000-01-02 06:00", "c5", "c6">> >>
      [] path = BothTxt ->
            << <<"%note", "%data", "%end", "%eof">>,
               <<"datetime", "*", "date", "prec">>,
               <<"2000-01-01 06:00", "2000-01-03", "x1", "b1">>,
               <<"2000-01-02 06:00", "2000-01-04", "x2", "b2">> >>
      [] path = DailyTxt ->
            << <<"datetime", "id", "temp[C]", "prec">>,
               <<"2000-01-01 00:00", "1", "d1", "d2">>,
               <<"2000-01-01 00:00", "2", "d3", "d4">>,
               <<"2000-01-02 00:00", "1", "d5", "d6">> >>
      [] path = AltDailyTxt ->
            << <<"temp[C]", "prec">>,
               <<"f1", "f2">>,
               <<"f3", "f4">> >>

\* the `site` children of the root: the id attribute and the soil child
XmlSites(path) ==
    CASE path = SiteXml -> << [id |-> "A", soil |-> "soilA"], [id |-> "B", soil |-> "soilB"] >>
      [] path = EmptyXml -> << >>

(***************************************************************************)
(* TxtParser: the shared text parse.                                       *)
(***************************************************************************)
\* the tokens of the modelled files that contain the substring "%data"
ContainsData(field) == field \in {"%data"}

\* `"%data" in line`
HasMarker(line) == \E i \in 1..Len(line) : ContainsData(line[i])

\* a slip in the header skip: the marker line itself is left to read
RECURSIVE SkipToMarkerMutant(_)
SkipToMarkerMutant(lines) ==
    IF Len(lines) = 0 THEN <<>>
    ELSE IF HasMarker(Head(lines)) THEN lines
    ELSE SkipToMarkerMutant(Tail(lines))

\* `for line in fileInMem: if "%data" in line: break`: what is left to read
RECURSIVE SkipToMarker(_)
SkipToMarker(lines) ==
    IF Len(lines) = 0 THEN <<>>
    ELSE IF HasMarker(Head(lines)) THEN Tail(lines)
    ELSE SkipToMarker(Tail(lines))

\* labels of pandas' default RangeIndex
RangeLabel(i) == <<"0", "1", "2", "3", "4", "5", "6", "7">>[i]

\* pd.read_csv(handle, sep="\t"): blank lines are skipped, the first line
\* left is the header, the others are the rows; nothing left is an error
read_csv(lines) ==
    LET body == SelectSeq(lines, LAMBDA l : Len(l) > 0)
    IN  IF Len(body) = 0
        THEN [err |-> "EmptyDataError", data |-> NoFrame]
        ELSE [err |-> "",
              data |-> Frame(Head(body), Tail(body),
                             [i \in 1..(Len(body) - 1) |-> RangeLabel(i)], NoneStr)]

\* `name in data.columns.values`
HasColumn(data, name) == \E j \in 1..Len(data.columns) : data.columns[j] = name

\* position of the column called name
ColPos(data, name) == CHOOSE j \in 1..Len(data.columns) :
    /\ data.columns[j] = name
    /\ \A k \in 1..(j - 1) : data.columns[k] # name

\* data[name].values
Column(data, name) == [r \in 1..Len(data.rows) |-> data.rows[r][ColPos(data, name)]]

\* pd.to_datetime(v).date(): the calendar date, the time of day dropped
ToDate(v) ==
    CASE v = "2000-01-01 00:00" -> "2000-01-01"
      [] v = "2000-01-01 06:00" -> "2000-01-01"
      [] v = "2000-01-01 18:00" -> "2000-01-01"
      [] v = "2000-01-02 00:00" -> "2000-01-02"
      [] v = "2000-01-02 06:00" -> "2000-01-02"
      [] OTHER -> v

\* the sequence s without its element at position j
DropAt(s, j) == [k \in 1..(Len(s) - 1) |-> IF k < j THEN s[k] ELSE s[k + 1]]

\* del data[name]
DelColumn(data, name) ==
    LET j == ColPos(data, name)
    IN  [data EXCEPT !.columns = DropAt(data.columns, j),
                     !.rows = [r \in 1..Len(data.rows) |-> DropAt(data.rows[r], j)]]

\* data[name] = values: an existing column is overwritten, a new one appended
SetColumn(data, name, values) ==
    IF HasColumn(data, name)
    THEN [data EXCEPT !.rows = [r \in 1..Len(data.rows) |->
                                  [data.rows[r] EXCEPT ![ColPos(data, name)] = values[r]]]]
    ELSE [data EXCEPT !.columns = Append(data.columns, name),
                      !.rows = [r \in 1..Len(data.rows) |-> Append(data.rows[r], values[r])]]

\* data.set_index(name): the column becomes the index and leaves the columns
set_index(data, name) ==
    LET moved == DelColumn(data, name)
    IN  [moved EXCEPT !.index = Column(data, name), !.indexName = name]

\* a slip in _set_index_col: `del data[dcol]` forgotten
PromoteMutant(data, dcol) ==
    IF HasColumn(data, dcol)
    THEN set_index(SetColumn(data, "date",
                             [r \in 1..Len(data.rows) |-> ToDate(Column(data, dcol)[r])]),
                   "date")
    ELSE data

\* one turn of the loop of _set_index_col, for the column name dcol
Promote(data, dcol) ==
    IF HasColumn(data, dcol)
    THEN DelColumn(
            set_index(SetColumn(data, "date",
                                [r \in 1..Len(data.rows) |-> ToDate(Column(data, dcol)[r])]),
                      "date"),
            dcol)
    ELSE data

\* TxtParser._set_index_col: the loop over ["datetime", "*"]
set_index_col(data) == Promote(Promote(data, "datetime"), "*")

\* a slip in the column selection: every kept column reads the first name
SubsetMutant(data, vs) ==
    IF \A j \in 1..Len(vs) : HasColumn(data, vs[j])
    THEN [err |-> "",
          data |-> [data EXCEPT
                      !.columns = vs,
                      !.rows = [r \in 1..Len(data.rows) |->
                                  [j \in 1..Len(vs) |-> data.rows[r][ColPos(data, vs[1])]]]]]
    ELSE [err |-> "KeyError", data |-> NoFrame]

\* data[vars] for a list vars: the named columns in the order of the list,
\* KeyError when a name is no column
Subset(data, vs) ==
    IF \A j \in 1..Len(vs) : HasColumn(data, vs[j])
    THEN [err |-> "",
          data |-> [data EXCEPT
                      !.columns = vs,
                      !.rows = [r \in 1..Len(data.rows) |->
                                  [j \in 1..Len(vs) |-> data.rows[r][ColPos(data, vs[j])]]]]]
    ELSE [err |-> "KeyError", data |-> NoFrame]

\* Path(inFile).read_text() of the file system above
ReadText(path) ==
    IF path \in TxtPaths
    THEN [err |-> "", lines |-> TxtLines(path)]
    ELSE [err |-> "FileNotFoundError", lines |-> <<>>]

\* TxtParser._parse, statement by statement: a step yields the instance
\* after the call and the exception raised ("" when the call returns).
\* The three assignments come last, so a raising call assigns nothing.
Txt_assign(self, inFile, sub) ==
    IF sub.err # "" THEN [err |-> sub.err, self |-> self]
    ELSE [err |-> "",
          self |-> [self EXCEPT !.data = sub.data, !.path = inFile,
                                !.name = PathName(inFile)]]

\* `if vars: data = data[vars]`
Txt_select(self, inFile, vs, data) ==
    IF Len(vs) > 0
    THEN Txt_assign(self, inFile, Subset(data, vs))
    ELSE Txt_assign(self, inFile, [err |-> "", data |-> data])

\* `data = self._set_index_col(data)`
Txt_index(self, inFile, vs, read) ==
    IF read.err # "" THEN [err |-> read.err, self |-> self]
    ELSE Txt_select(self, inFile, vs, set_index_col(read.data))

\* the header skip and `data = pd.read_csv(fileInMem, sep="\t")`
Txt_read(self, inFile, skip_header, vs, text) ==
    IF text.err # "" THEN [err |-> text.err, self |-> self]
    ELSE Txt_index(self, inFile, vs,
                   read_csv(IF skip_header THEN SkipToMarker(text.lines) ELSE text.lines))

Txt_parse(self, inFile, skip_header, vs) ==
    Txt_read(self, inFile, skip_header, vs, ReadText(inFile))

\* AirchemParser.parse
Airchem_parse(self, inFile, vs) == Txt_parse(self, inFile, TRUE, vs)

\* ClimateParser.parse
Climate_parse(self, inFile, vs) == Txt_parse(self, inFile, TRUE, vs)

(***************************************************************************)
(* DailyResultsParser.                                                     *)
(***************************************************************************)
\* np.unique(self._data.id.values)
IdsPresent(data) == {Column(data, "id")[r] : r \in 1..Len(data.rows)}

\* data[data.id.isin(ids)]: the rows whose id is in ids, with their labels
FilterIds(data, ids) ==
    LET keep == SelectSeq([r \in 1..Len(data.rows) |-> r],
                          LAMBDA r : Column(data, "id")[r] \in ids)
    IN  [data EXCEPT !.rows = [k \in 1..Len(keep) |-> data.rows[keep[k]]],
                     !.index = [k \in 1..Len(keep) |-> data.index[keep[k]]]]

\* DailyResultsParser.parse, statement by statement: _parse has assigned
\* data, path and name before the id filter and the column selection run
\* `if vars: self._data = self._data[vars]`
Daily_assign(self, sub, printed) ==
    IF sub.err # "" THEN [err |-> sub.err, self |-> self, printed |-> printed]
    ELSE [err |-> "", self |-> [self EXCEPT !.data = sub.data], printed |-> printed]

Daily_select(self, vs, printed) ==
    IF Len(vs) = 0 THEN [err |-> "", self |-> self, printed |-> printed]
    ELSE Daily_assign(self, Subset(self.data, vs), printed)

\* `if ids:`: the filter when every requested id is present, else a print
Daily_filter(self, vs, ids) ==
    IF ids = {} THEN Daily_select(self, vs, "")
    ELSE IF ~HasColumn(self.data, "id")
    THEN [err |-> "AttributeError", self |-> self, printed |-> ""]
    ELSE IF ids \subseteq IdsPresent(self.data)
    THEN Daily_select([self EXCEPT !.data = FilterIds(self.data, ids)], vs, "")
    ELSE Daily_select(self, vs, "IDs not in file")

\* after `self._parse(inFile, daily=True)`
Daily_parsed(read, vs, ids) ==
    IF read.err # "" THEN [err |-> read.err, self |-> read.self, printed |-> ""]
    ELSE Daily_filter(read.self, vs, ids)

Daily_parse(self, inFile, vs, ids) ==
    Daily_parsed(Txt_parse(self, inFile, FALSE, <<>>), vs, ids)

\* "temp[C]" -> "temp": re.sub(r"\[.*\]", "", name) on the modelled names
StripUnits(name) ==
    CASE name = "temp[C]" -> "temp"
      [] OTHER -> name

\* DailyResultsParser.data_nounits: assigns self._data.columns, returns self._data
data_nounits(self) ==
    IF self.data.kind = "None"
    THEN [err |-> "AttributeError", self |-> self, view |-> NoFrame]
    ELSE LET renamed == [self.data EXCEPT
                            !.columns = [j \in 1..Len(self.data.columns) |->
                                            StripUnits(self.data.columns[j])]]
         IN  [err |-> "", self |-> [self EXCEPT !.data = renamed], view |-> renamed]

(***************************************************************************)
(* SiteParser.                                                             *)
(***************************************************************************)
\* ET.parse(Path(inFile)).getroot().findall("./site")
ReadXml(path) ==
    IF path \in XmlPaths
    THEN [err |-> "", sites |-> XmlSites(path)]
    ELSE [err |-> "FileNotFoundError", sites |-> <<>>]

\* the attributes an xml.etree.ElementTree.Element has; `site.id` is none
ElementHasAttr(name) == name \in {"tag", "attrib", "text", "tail"}

\* SiteParser._parse: with an id the loop reads site.id of the first site
\* (AttributeError), or leaves `site` unbound when there is no site; with
\* no id it takes sites[0]
Site_select(self, inFile, id, doc) ==
    IF doc.err # "" THEN [err |-> doc.err, self |-> self]
    ELSE IF id # "" /\ Len(doc.sites) > 0 /\ ~ElementHasAttr("id")
    THEN [err |-> "AttributeError", self |-> self]
    ELSE IF id # "" THEN [err |-> "UnboundLocalError", self |-> self]
    ELSE IF Len(doc.sites) = 0 THEN [err |-> "IndexError", self |-> self]
    ELSE [err |-> "",
          self |-> [self EXCEPT !.data = Element(doc.sites[1].soil), !.path = inFile,
                                !.name = PathName(inFile)]]

Site_parse(self, inFile, id) == Site_select(self, inFile, id, ReadXml(inFile))

(***************************************************************************)
(* Construction and the factory.                                           *)
(***************************************************************************)
\* keyword arguments: an option is passed exactly when it is set
NoKw == [vars |-> <<>>, ids |-> {}, id |-> ""]

KwKeys(kw) ==
    (IF Len(kw.vars) > 0 THEN {"vars"} ELSE {}) \cup
    (IF kw.ids # {} THEN {"ids"} ELSE {}) \cup
    (IF kw.id # "" THEN {"id"} ELSE {})

\* what a constructor yields once its parse call is over: an exception
\* raised in __init__ leaves the caller without an instance
Made(r, printed) ==
    [err |-> r.err, self |-> IF r.err = "" THEN r.self ELSE NoInstance, printed |-> printed]

\* AirchemParser.__init__(inFile): takes no keyword; parses without options
Airchem_init(inFile, kw) ==
    IF KwKeys(kw) # {} THEN [err |-> "TypeError", self |-> NoInstance, printed |-> ""]
    ELSE IF Len(inFile) = 0
    THEN [err |-> "", self |-> BaseInit("AirchemParser", FileTypeOf("AirchemParser")),
          printed |-> ""]
    ELSE Made(Airchem_parse(BaseInit("AirchemParser", FileTypeOf("AirchemParser")),
                            inFile, <<>>), "")

\* ClimateParser.__init__(inFile, **kwargs): self.parse(inFile, **kwargs)
Climate_init(inFile, kw) ==
    IF Len(inFile) = 0
    THEN [err |-> "", self |-> BaseInit("ClimateParser", FileTypeOf("ClimateParser")),
          printed |-> ""]
    ELSE IF ~(KwKeys(kw) \subseteq {"vars"})
    THEN [err |-> "TypeError", self |-> NoInstance, printed |-> ""]
    ELSE Made(Climate_parse(BaseInit("ClimateParser", FileTypeOf("ClimateParser")),
                            inFile, kw.vars), "")

\* SiteParser.__init__(inFile): takes no keyword; parses without an id
Site_init(inFile, kw) ==
    IF KwKeys(kw) # {} THEN [err |-> "TypeError", self |-> NoInstance, printed |-> ""]
    ELSE IF Len(inFile) = 0
    THEN [err |-> "", self |-> BaseInit("SiteParser", FileTypeOf("SiteParser")),
          printed |-> ""]
    ELSE Made(Site_parse(BaseInit("SiteParser", FileTypeOf("SiteParser")), inFile, ""), "")

Daily_made(r) == Made(r, r.printed)

\* DailyResultsParser.__init__(inFile, **kwargs): self.parse(inFile, **kwargs)
Daily_init(inFile, kw) ==
    IF Len(inFile) = 0
    THEN [err |-> "",
          self |-> BaseInit("DailyResultsParser", FileTypeOf("DailyResultsParser")),
          printed |-> ""]
    ELSE IF ~(KwKeys(kw) \subseteq {"vars", "ids"})
    THEN [err |-> "TypeError", self |-> NoInstance, printed |-> ""]
    ELSE Daily_made(Daily_parse(BaseInit("DailyResultsParser",
                                         FileTypeOf("DailyResultsParser")),
                                inFile, kw.vars, kw.ids))

\* cls(inFile, **kwargs)
Construct(cls, inFile, kw) ==
    CASE cls = "AirchemParser" -> Airchem_init(inFile, kw)
      [] cls = "ClimateParser" -> Climate_init(inFile, kw)
      [] cls = "SiteParser" -> Site_init(inFile, kw)
      [] cls = "DailyResultsParser" -> Daily_init(inFile, kw)

\* `return matched_parsers[0](inFile, **kwargs)`
Returned(made) ==
    IF made.err = ""
    THEN [ret |-> "instance", err |-> "", self |-> made.self, printed |-> made.printed]
    ELSE [ret |-> "raise", err |-> made.err, self |-> NoInstance, printed |-> made.printed]

\* the three branches of Parser.__new__ on the list of matched classes
Dispatch(matched, inFile, kw) ==
    IF Len(matched) = 1 THEN Returned(Construct(matched[1], inFile, kw))
    ELSE IF Len(matched) > 1
    THEN [ret |-> "None", err |-> "", self |-> NoInstance,
          printed |-> "Multiple parsers matched"]
    ELSE [ret |-> "raise", err |-> "NotImplementedError", self |-> NoInstance,
          printed |-> ""]

\* Parser.__new__: what the call evaluates to (ret: "instance", "None" or
\* "raise"), the exception, the instance and what was printed
Parser_new(reg, fileType, inFile, kw) ==
    Dispatch(matched_parsers(reg, fileType), inFile, kw)

\* p.parse(inFile, **kw) on the instance self: each class's parse takes the
\* options of its signature, another keyword is a TypeError
Method_parse(self, inFile, kw) ==
    CASE self.cls = "AirchemParser" ->
            IF KwKeys(kw) \subseteq {"vars"} THEN Airchem_parse(self, inFile, kw.vars)
            ELSE [err |-> "TypeError", self |-> self]
      [] self.cls = "ClimateParser" ->
            IF KwKeys(kw) \subseteq {"vars"} THEN Climate_parse(self, inFile, kw.vars)
            ELSE [err |-> "TypeError", self |-> self]
      [] self.cls = "SiteParser" ->
            IF KwKeys(kw) \subseteq {"id"} THEN Site_parse(self, inFile, kw.id)
            ELSE [err |-> "TypeError", self |-> self]
      [] self.cls = "DailyResultsParser" ->
            IF KwKeys(kw) \subseteq {"vars", "ids"}
            THEN Daily_parse(self, inFile, kw.vars, kw.ids)
            ELSE [err |-> "TypeError", self |-> self, printed |-> ""]

(***************************************************************************)
(* The inputs the calls are made with.                                     *)
(***************************************************************************)
VarNames == {"prec", "temp[C]"}

VarLists == UNION {[1..n -> VarNames] : n \in 0..MaxVars}

IdValues == {"1", "2", "9"}

IdLists == {ids \in SUBSET IdValues : Cardinality(ids) <= MaxIds}

SiteIds == {"", "A", "B", "Z"}

\* the lines read_csv is handed are a header and rows of the header's width
Rectangular(lines) ==
    LET body == SelectSeq(lines, LAMBDA l : Len(l) > 0)
    IN  \A i \in 1..Len(body) : Len(body[i]) = Len(body[1])

\* the sources the header-skipping parsers are given; a missing file among them
SkipSources == {p \in TxtPaths : Rectangular(SkipToMarker(TxtLines(p)))} \cup {MissingTxt}

\* the sources the daily-results parser is given
WholeSources == {p \in TxtPaths : Rectangular(TxtLines(p))} \cup {MissingTxt}

\* the sources the site parser is given
XmlSources == XmlPaths \cup {MissingXml}

SourcesFor(cls) ==
    CASE cls \in {"AirchemParser", "ClimateParser"} -> SkipSources
      [] cls = "DailyResultsParser" -> WholeSources
      [] cls = "SiteParser" -> XmlSources

\* the sources a factory call for fileType is given under the registry reg
FactorySources(reg, fileType) ==
    {NonePath} \cup
    UNION {SourcesFor(reg[i]) : i \in {j \in 1..Len(reg) : is_parser_for(reg[j], fileType)}}

\* keyword options of a factory call: those of some parser's parse
KwOptions ==
    {[vars |-> vs, ids |-> ids, id |-> ""] : vs \in VarLists, ids \in IdLists}
    \cup {[vars |-> <<>>, ids |-> {}, id |-> id] : id \in SiteIds}

\* a missing file is asked for without options
Plain(inFile, kw) == inFile \in {MissingTxt, MissingXml} => kw = NoKw

Call(op, fileType, inFile, kw, outcome, printed) ==
    [op |-> op, fileType |-> fileType, inFile |-> inFile, vars |-> kw.vars,
     ids |-> kw.ids, id |-> kw.id, outcome |-> outcome, printed |-> printed]

Outcome(err) == IF err = "" THEN "returned" ELSE err

(***************************************************************************)
(* The state machine.                                                      *)
(***************************************************************************)
Init ==
    /\ parsers \in Registries
    /\ inst = NoInstance
    /\ last = Call("start", NoneStr, NonePath, NoKw, "returned", "")

\* p = Parser(fileType, inFile, **kw): the call that makes the instance
Create ==
    /\ last.op = "start"
    /\ \E fileType \in FileKinds, kw \in KwOptions :
         \E inFile \in FactorySources(parsers, fileType) :
            /\ Plain(inFile, kw)
            /\ \E r \in {Parser_new(parsers, fileType, inFile, kw)} :
                   /\ inst' = r.self
                   /\ last' = Call("Parser", fileType, inFile, kw,
                                   IF r.ret = "instance" THEN "returned"
                                   ELSE IF r.ret = "None" THEN "returned None"
                                   ELSE r.err,
                                   r.printed)
    /\ UNCHANGED parsers

\* p.parse(inFile, vars=vs) on an AirchemParser
AirchemParse ==
    /\ inst.cls = "AirchemParser"
    /\ \E inFile \in SkipSources, vs \in VarLists :
         /\ Plain(inFile, [NoKw EXCEPT !.vars = vs])
         /\ \E r \in {Airchem_parse(inst, inFile, vs)} :
                /\ inst' = r.self
                /\ last' = Call("parse", inst.type, inFile, [NoKw EXCEPT !.vars = vs],
                                Outcome(r.err), "")
    /\ UNCHANGED parsers

\* p.parse(inFile, vars=vs) on a ClimateParser
ClimateParse ==
    /\ inst.cls = "ClimateParser"
    /\ \E inFile \in SkipSources, vs \in VarLists :
         /\ Plain(inFile, [NoKw EXCEPT !.vars = vs])
         /\ \E r \in {Climate_parse(inst, inFile, vs)} :
                /\ inst' = r.self
                /\ last' = Call("parse", inst.type, inFile, [NoKw EXCEPT !.vars = vs],
                                Outcome(r.err), "")
    /\ UNCHANGED parsers

\* p.parse(inFile, id=id) on a SiteParser
SiteParse ==
    /\ inst.cls = "SiteParser"
    /\ \E inFile \in XmlSources, id \in SiteIds :
         /\ Plain(inFile, [NoKw EXCEPT !.id = id])
         /\ \E r \in {Site_parse(inst, inFile, id)} :
                /\ inst' = r.self
                /\ last' = Call("parse", inst.type, inFile, [NoKw EXCEPT !.id = id],
                                Outcome(r.err), "")
    /\ UNCHANGED parsers

\* p.parse(inFile, vars=vs, ids=ids) on a DailyResultsParser
DailyParse ==
    /\ inst.cls = "DailyResultsParser"
    /\ \E inFile \in WholeSources, vs \in VarLists, ids \in IdLists :
         /\ Plain(inFile, [NoKw EXCEPT !.vars = vs, !.ids = ids])
         /\ \E r \in {Daily_parse(inst, inFile, vs, ids)} :
                /\ inst' = r.self
                /\ last' = Call("parse", inst.type, inFile,
                                [NoKw EXCEPT !.vars = vs, !.ids = ids],
                                Outcome(r.err), r.printed)
    /\ UNCHANGED parsers

\* p.data_nounits on a DailyResultsParser
ReadNounits ==
    /\ inst.cls = "DailyResultsParser"
    /\ \E r \in {data_nounits(inst)} :
           /\ inst' = r.self
           /\ last' = Call("data_nounits", inst.type, NonePath, NoKw, Outcome(r.err), "")
    /\ UNCHANGED parsers

Next ==
    \/ Create
    \/ AirchemParse
    \/ ClimateParse
    \/ SiteParse
    \/ DailyParse
    \/ ReadNounits

Spec == Init /\ [][Next]_vars

(***************************************************************************)
(* Vocabulary of the properties.                                           *)
(***************************************************************************)
\* the options of the most recent call
LastKw == [vars |-> last.vars, ids |-> last.ids, id |-> last.id]

\* the most recent call was a factory call
FactoryCall == last.op = "Parser"

\* the most recent call ran a parse of last.inFile to its end: parse itself,
\* or a factory call that was given a source
ParseReturned ==
    /\ last.op \in {"parse", "Parser"}
    /\ last.inFile # NonePath
    /\ last.outcome = "returned"

TxtParseReturned == ParseReturned /\ inst.cls \in TxtParsers

\* the lines that follow the first line holding the marker
AfterMarker(lines) ==
    LET m == CHOOSE i \in 1..Len(lines) :
                /\ HasMarker(lines[i])
                /\ \A k \in 1..(i - 1) : ~HasMarker(lines[k])
    IN  SubSeq(lines, m + 1, Len(lines))

\* the lines the parser of class cls reads the table from
TableLines(cls, path) ==
    IF cls \in {"AirchemParser", "ClimateParser"}
    THEN AfterMarker(TxtLines(path))
    ELSE TxtLines(path)

NonBlank(lines) == SelectSeq(lines, LAMBDA l : Len(l) > 0)

Names(seq) == {seq[i] : i \in 1..Len(seq)}

\* position of name in the header
HeaderPos(header, name) == CHOOSE k \in 1..Len(header) : header[k] = name

\* the header names that do not stay named columns: the promoted date
\* columns and, when one is promoted, a column called date
Promoted(header) ==
    IF Names(header) \cap {"datetime", "*"} # {} THEN {"datetime", "*", "date"} ELSE {}

(***************************************************************************)
(* C1: under the registry the module defines, a factory call for a kind    *)
(* with a concrete parser (AIRCHEM, CLIMATE, SITE, DAILY) matches exactly  *)
(* one class; Parser(kind) returns an instance, and every instance the     *)
(* factory returns has the requested kind as its declared kind.            *)
(***************************************************************************)
RegisteredKinds == {"AIRCHEM", "CLIMATE", "SITE", "DAILY"}

C1_FactorySelectsOneOfKind ==
    (FactoryCall /\ parsers = DefaultParsers /\ last.fileType \in RegisteredKinds) =>
        /\ Len(matched_parsers(parsers, last.fileType)) = 1
        /\ (last.inFile = NonePath /\ LastKw = NoKw) => last.outcome = "returned"
        /\ last.outcome = "returned" =>
              /\ inst.type = last.fileType
              /\ FileTypeOf(inst.cls) = last.fileType

C1_Witness ==
    /\ FactoryCall /\ parsers = DefaultParsers
    /\ last.fileType = "DAILY" /\ last.inFile = NonePath
    /\ last.outcome = "returned"
    /\ inst.cls = "DailyResultsParser" /\ inst.type = "DAILY"

(***************************************************************************)
(* C2: the factory never returns without a parser instance: with no class  *)
(* claiming the kind the call raises (NotImplementedError standing for     *)
(* UnsupportedKind), and with more than one class claiming it the call     *)
(* raises as well (AmbiguousRegistration).                                 *)
(***************************************************************************)
C2_FactoryReturnsInstanceOrFails ==
    FactoryCall =>
        /\ last.outcome # "returned None"
        /\ Len(matched_parsers(parsers, last.fileType)) = 0 =>
              last.outcome = "NotImplementedError"
        /\ Len(matched_parsers(parsers, last.fileType)) > 1 =>
              last.outcome \notin {"returned", "returned None"}

(***************************************************************************)
(* C3: a factory call for a registered kind with a source and options the  *)
(* parser's parse accepts leaves the caller with the instance that         *)
(* constructing without a source and calling parse(source, options) gives; *)
(* a factory call without a source gives an instance with no document and  *)
(* no provenance.                                                          *)
(***************************************************************************)
ParseAccepts(cls) ==
    CASE cls \in {"AirchemParser", "ClimateParser"} -> {"vars"}
      [] cls = "DailyResultsParser" -> {"vars", "ids"}
      [] cls = "SiteParser" -> {"id"}

C3_FactoryParsesImmediately ==
    (FactoryCall /\ Len(matched_parsers(parsers, last.fileType)) = 1) =>
        LET cls == matched_parsers(parsers, last.fileType)[1]
            fresh == BaseInit(cls, FileTypeOf(cls))
            ref == Method_parse(fresh, last.inFile, LastKw)
        IN  /\ (last.inFile = NonePath /\ LastKw = NoKw) =>
                  /\ last.outcome = "returned"
                  /\ inst = fresh
            /\ (last.inFile # NonePath /\ KwKeys(LastKw) \subseteq ParseAccepts(cls)
                  /\ ref.err = "") =>
                  /\ last.outcome = "returned"
                  /\ inst = ref.self

(***************************************************************************)
(* C4: a parse call that fails leaves the instance (document, path and     *)
(* name) as it was before the call.                                        *)
(***************************************************************************)
C4_FailedParseLeavesState ==
    [][(last'.op = "parse" /\ last'.outcome # "returned") => inst' = inst]_vars

(***************************************************************************)
(* C5: a daily-results parse with a non-empty set of ids holds exactly the *)
(* source rows whose id is requested, in source order, when every          *)
(* requested id occurs in the file, and fails when one does not.           *)
(***************************************************************************)
\* the table of a daily file as read: header first, without the date column
DailySource(path) ==
    LET body == NonBlank(TxtLines(path))
    IN  [header |-> body[1], rows |-> Tail(body)]

C5_IdFilter ==
    (/\ last.op \in {"parse", "Parser"}
     /\ last.inFile \in TxtPaths
     /\ last.fileType = "DAILY"
     /\ parsers = DefaultParsers
     /\ last.ids # {}
     /\ "id" \in Names(DailySource(last.inFile).header)) =>
        LET src == DailySource(last.inFile)
            k == HeaderPos(src.header, "id")
            wanted == SelectSeq(src.rows, LAMBDA row : row[k] \in last.ids)
        IN  IF last.ids \subseteq {src.rows[r][k] : r \in 1..Len(src.rows)}
            THEN last.outcome = "returned" =>
                    /\ Len(inst.data.rows) = Len(wanted)
                    /\ (last.vars = <<>> /\ HasColumn(inst.data, "id")) =>
                          \A r \in 1..Len(wanted) :
                              Column(inst.data, "id")[r] = wanted[r][k]
            ELSE last.outcome # "returned"

(***************************************************************************)
(* C6: SiteParser.parse holds the soil subtree of one site: the first site *)
(* when no id is given, the first site whose id attribute is the given id  *)
(* otherwise; it fails when there is no such site.                         *)
(***************************************************************************)
C6_SiteSelection ==
    (/\ last.op \in {"parse", "Parser"}
     /\ last.inFile \in XmlPaths
     /\ last.fileType = "SITE"
     /\ parsers = DefaultParsers
     /\ KwKeys(LastKw) \subseteq {"id"}
     /\ (last.op = "Parser" => LastKw = NoKw)) =>
        LET sites == XmlSites(last.inFile)
            hits == IF last.id = "" THEN sites
                    ELSE SelectSeq(sites, LAMBDA site : site.id = last.id)
        IN  IF Len(hits) = 0
            THEN last.outcome # "returned"
            ELSE /\ last.outcome = "returned"
                 /\ inst.data = Element(hits[1].soil)
                 /\ inst.path = last.inFile

(***************************************************************************)
(* C7 as stated: after a text parse without options the held columns are   *)
(* exactly the fields of the line right after the marker line (of the      *)
(* file's first line for the daily-results parser) and the lines after it  *)
(* are the rows.                                                           *)
(***************************************************************************)
C7_ColumnsAreNextLine ==
    (TxtParseReturned /\ last.vars = <<>> /\ last.ids = {}) =>
        LET lines == TableLines(inst.cls, last.inFile)
        IN  /\ inst.data.columns = lines[1]
            /\ Len(inst.data.rows) = Len(lines) - 1

(***************************************************************************)
(* C7 as amended: the lines up to and including the first marker line are  *)
(* discarded (none for the daily-results parser); the first non-blank line *)
(* left is the header; the held columns are its fields in order, less the  *)
(* ones promoted to the index; the non-blank lines after it are the rows,  *)
(* in source order, cell for cell.                                         *)
(***************************************************************************)
C7_HeaderFollowsMarker ==
    (TxtParseReturned /\ last.vars = <<>> /\ last.ids = {}) =>
        LET body == NonBlank(TableLines(inst.cls, last.inFile))
            header == body[1]
        IN  /\ inst.data.columns =
                  SelectSeq(header, LAMBDA n : n \notin Promoted(header))
            /\ Len(inst.data.rows) = Len(body) - 1
            /\ \A r \in 1..Len(inst.data.rows) : \A j \in 1..Len(inst.data.columns) :
                  inst.data.rows[r][j] =
                      body[r + 1][HeaderPos(header, inst.data.columns[j])]

C7_Witness ==
    /\ TxtParseReturned /\ last.vars = <<>>
    /\ inst.cls = "ClimateParser" /\ last.inFile = ClimateTxt
    /\ inst.data.columns = <<"temp[C]", "prec">>
    /\ Len(inst.data.rows) = 3

C9_ColumnSubsetKeepsRows ==
    (TxtParseReturned /\ last.vars # <<>>) =>
        LET fresh == BaseInit(inst.cls, FileTypeOf(inst.cls))
            full == Method_parse(fresh, last.inFile, [LastKw EXCEPT !.vars = <<>>]).self.data
        IN  /\ inst.data.columns = last.vars
            /\ inst.data.index = full.index
            /\ Len(inst.data.rows) = Len(full.rows)
            /\ \A r \in 1..Len(full.rows) : \A j \in 1..Len(last.vars) :
                  \E k \in 1..Len(full.columns) :
                      /\ full.columns[k] = last.vars[j]
                      /\ inst.data.rows[r][j] = full.rows[r][k]

C9_Witness ==
    /\ TxtParseReturned
    /\ inst.cls = "DailyResultsParser" /\ last.inFile = DailyTxt
    /\ last.vars = <<"prec", "temp[C]">> /\ last.ids = {"1"}
    /\ inst.data.columns = <<"prec", "temp[C]">>
    /\ inst.data.rows = << <<"d2", "d1">>, <<"d6", "d5">> >>

(***************************************************************************)
(* C10: reading data_nounits leaves the held document as it was parsed.    *)
(***************************************************************************)
C10_NounitsLeavesData ==
    [][last'.op = "data_nounits" => inst'.data = inst.data]_vars

====
